---- MODULE Spec2Model ----
(***************************************************************************)
(* A model of ippdu (src/ippdu.py), the command-line utility that lists    *)
(* and switches the outlets of a 0816-series Smart PDU.                    *)
(*                                                                         *)
(* Python strings are modelled as sequences of one-character strings, so   *)
(* that lstrip, strip, lower, upper, startswith, replace, isdigit, int and *)
(* the regular expression are computed character by character.             *)
(* A Python dict is a function with a finite domain.  A call that can      *)
(* raise returns a record [kind |-> "ok", value |-> v] or                  *)
(* [kind |-> "raise", error |-> e].                                        *)
(***************************************************************************)
EXTENDS Integers, Sequences, FiniteSets, TLC

VARIABLES
    pc,         \* position of the running call / of main
    args,       \* arguments of the running call, or the parsed command line
    ret,        \* what the running call returned or raised
    net,        \* URLs requested from the device so far, in order
    names,      \* list_outlets: names
    stats,      \* list_outlets: stats
    table,      \* main: table
    outlet_num, \* main: outlet_num
    op,         \* main: op
    steps,      \* the steps main has started, in order, with their outcome
    stdout,     \* lines written to standard output
    session,    \* the browser of set_outlet: "none", "open" or "closed"
    exit        \* "running", "ok" (exit 0) or "failed" (non-zero exit)

vars == <<pc, args, ret, net, names, stats, table, outlet_num, op, steps,
          stdout, session, exit>>

mainVars == <<names, stats, table, outlet_num, op, steps, stdout, session, exit>>

(***************************************************************************)
(* Bounds of the model.                                                    *)
(***************************************************************************)
MaxPathLen == 3

(***************************************************************************)
(* Results of calls.                                                       *)
(***************************************************************************)
None == [kind |-> "none"]

Ok(v) == [kind |-> "ok", value |-> v]

Raise(e) == [kind |-> "raise", error |-> e]

(***************************************************************************)
(* String literals of the source, as character sequences.                  *)
(***************************************************************************)
Slash == <<"/">>

(***************************************************************************)
(* str.lstrip(chars): drops every leading character that is in chars.      *)
(***************************************************************************)
RECURSIVE lstrip(_, _)
lstrip_single(s, chars) ==
    IF s # <<>> /\ s[1] \in chars THEN Tail(s) ELSE s

lstrip(s, chars) ==
    IF s # <<>> /\ s[1] \in chars THEN lstrip(Tail(s), chars) ELSE s

(***************************************************************************)
(* fetch, line 63: the URL of the request.                                 *)
(***************************************************************************)
fetch_url(base_url, path) == base_url \o Slash \o lstrip(path, {"/"})

(***************************************************************************)
(* What the device may answer to a GET: a body, no answer                  *)
(* (requests.ConnectionError / Timeout), or an error status that           *)
(* raise_for_status turns into requests.HTTPError.                         *)
(***************************************************************************)
FetchOutcomes == {"body", "ConnectionError", "HTTPError"}

fetch_result(outcome, body) ==
    IF outcome = "body" THEN Ok(body) ELSE Raise(outcome)

(***************************************************************************)
(* Main's variables before main has assigned them, and while a single      *)
(* function is exercised on its own.                                       *)
(***************************************************************************)
MainIdle ==
    /\ names = <<>>
    /\ stats = <<>>
    /\ table = <<>>
    /\ outlet_num = -1
    /\ op = "unset"
    /\ steps = <<>>
    /\ stdout = <<>>
    /\ session = "none"
    /\ exit = "running"

(***************************************************************************)
(* SpecFetch: fetch(base_url, path, auth, timeout) on its own.             *)
(***************************************************************************)
PathChars == {"/", "a", "."}

Paths == UNION {[1..n -> PathChars] : n \in 0..MaxPathLen}

BaseUrls == {<<"h">>, <<"h", "/">>}

Bodies == {<<>>, <<"x">>}

InitFetch ==
    /\ pc = "call"
    /\ args \in [fn : {"fetch"}, base_url : BaseUrls, path : Paths]
    /\ ret = None
    /\ net = <<>>
    /\ MainIdle

Fetch ==
    /\ pc = "call"
    /\ args.fn = "fetch"
    /\ net' = Append(net, fetch_url(args.base_url, args.path))
    /\ \E outcome \in FetchOutcomes, body \in Bodies :
          ret' = fetch_result(outcome, body)
    /\ pc' = "return"
    /\ UNCHANGED <<args, mainVars>>

NextFetch == Fetch

SpecFetch == InitFetch /\ [][NextFetch]_vars

(***************************************************************************)
(* C10 (as amended): fetch requests base_url, one separator, and the path  *)
(* with every leading slash removed: a path with k >= 0 leading slashes    *)
(* keeps none of them.                                                     *)
(***************************************************************************)
RECURSIVE LeadingSlashes(_)
LeadingSlashes(s) ==
    IF s # <<>> /\ s[1] = "/" THEN 1 + LeadingSlashes(Tail(s)) ELSE 0

DropFirst(s, k) == SubSeq(s, k + 1, Len(s))

FetchStripsEverySlash ==
    (pc = "return" /\ args.fn = "fetch") =>
        /\ Len(net) = 1
        /\ net[1] = args.base_url \o Slash
                      \o DropFirst(args.path, LeadingSlashes(args.path))

FetchStripsEverySlashWitness ==
    /\ pc = "return"
    /\ args.fn = "fetch"
    /\ LeadingSlashes(args.path) = 2
    /\ Len(args.path) = 3
    /\ net[1] = args.base_url \o Slash \o <<args.path[3]>>

(***************************************************************************)
(* C10 (as stated): a single leading slash is stripped, so a path with     *)
(* k >= 1 leading slashes keeps k-1 of them.                               *)
(***************************************************************************)
FetchStripsSingleSlash ==
    (pc = "return" /\ args.fn = "fetch") =>
        /\ Len(net) = 1
        /\ net[1] = args.base_url \o Slash
                      \o DropFirst(args.path,
                                   IF LeadingSlashes(args.path) >= 1 THEN 1 ELSE 0)


(***************************************************************************)
(* Characters.                                                             *)
(***************************************************************************)
DigitChars == <<"0", "1", "2", "3", "4", "5", "6", "7", "8", "9">>

UpperChars == <<"A", "B", "C", "D", "E", "F", "G", "H", "I", "J", "K", "L", "M",
                "N", "O", "P", "Q", "R", "S", "T", "U", "V", "W", "X", "Y", "Z">>

LowerChars == <<"a", "b", "c", "d", "e", "f", "g", "h", "i", "j", "k", "l", "m",
                "n", "o", "p", "q", "r", "s", "t", "u", "v", "w", "x", "y", "z">>

Range(f) == {f[i] : i \in DOMAIN f}

IndexOf(c, f) == CHOOSE i \in DOMAIN f : f[i] = c

LowerChar(c) == IF c \in Range(UpperChars) THEN LowerChars[IndexOf(c, UpperChars)] ELSE c

UpperChar(c) == IF c \in Range(LowerChars) THEN UpperChars[IndexOf(c, LowerChars)] ELSE c

\* str.lower() and str.upper()
lower(s) == [i \in DOMAIN s |-> LowerChar(s[i])]

upper(s) == [i \in DOMAIN s |-> UpperChar(s[i])]

\* str.isdigit(): at least one character, and every character a digit
isdigit(s) == s # <<>> /\ \A i \in DOMAIN s : s[i] \in Range(DigitChars)

DigitVal(c) == IndexOf(c, DigitChars) - 1

\* int(s) for a string of digits
RECURSIVE int_digits(_)
int_digits(s) ==
    IF s = <<>> THEN 0
    ELSE 10 * int_digits(SubSeq(s, 1, Len(s) - 1)) + DigitVal(s[Len(s)])

\* str(n), the f-string's rendering of an int
RECURSIVE str_nat(_)
str_nat(n) ==
    IF n < 10 THEN <<DigitChars[n + 1]>>
    ELSE str_nat(n \div 10) \o <<DigitChars[(n % 10) + 1]>>

str_int(n) == IF n < 0 THEN <<"-">> \o str_nat(-n) ELSE str_nat(n)

(***************************************************************************)
(* Python dicts.                                                           *)
(***************************************************************************)
EmptyDict == <<>>

Dicts(keys, vals) == UNION {[K -> vals] : K \in SUBSET keys}

\* dict.get(k, default)
dict_get(d, k, default) == IF k \in DOMAIN d THEN d[k] ELSE default

\* d[k] = v
dict_set(d, k, v) == [x \in DOMAIN d \cup {k} |-> IF x = k THEN v ELSE d[x]]

(***************************************************************************)
(* sorted(d) over the int keys of a dict: ascending.                       *)
(***************************************************************************)
Min(S) == CHOOSE x \in S : \A y \in S : x <= y

Max(S) == CHOOSE x \in S : \A y \in S : x >= y

RECURSIVE sorted_desc(_)
sorted_desc(S) ==
    IF S = {} THEN <<>> ELSE <<Max(S)>> \o sorted_desc(S \ {Max(S)})

RECURSIVE sorted(_)
sorted(S) ==
    IF S = {} THEN <<>> ELSE <<Min(S)>> \o sorted(S \ {Min(S)})

(***************************************************************************)
(* list_outlets, line 113: one (number, name, state) per key of names.     *)
(***************************************************************************)
ON == <<"O", "N">>

OFF == <<"O", "F", "F">>

Unknown == <<"(", "u", "n", "k", "n", "o", "w", "n", ")">>

Rec(n, name, state) == [number |-> n, name |-> name, state |-> state]

list_outlets_table(nm, st) ==
    LET order == sorted(DOMAIN nm)
    IN  [i \in DOMAIN order |->
            Rec(order[i], nm[order[i]], dict_get(st, order[i], Unknown))]

\* the two paths list_outlets fetches, lines 110-111
ControlOutletHtm == <<"c", "o", "n", "t", "r", "o", "l", "_", "o", "u", "t",
                      "l", "e", "t", ".", "h", "t", "m">>

StatusXml == <<"s", "t", "a", "t", "u", "s", ".", "x", "m", "l">>

(***************************************************************************)
(* SpecList: list_outlets on the two mappings its parsers returned.        *)
(***************************************************************************)
MaxOutlet == 2

Outlets == 0..MaxOutlet

ListNames == {<<"a">>, <<"L", "a", "m", "p">>}

Host == <<"h">>

InitList ==
    /\ pc = "call"
    /\ args \in [fn : {"list_outlets"}, base_url : {Host},
                 names : Dicts(Outlets, ListNames),
                 stats : Dicts(Outlets, {ON, OFF})]
    /\ ret = None
    /\ net = <<>>
    /\ MainIdle

ListOutlets ==
    /\ pc = "call"
    /\ args.fn = "list_outlets"
    /\ net' = <<fetch_url(args.base_url, ControlOutletHtm),
                fetch_url(args.base_url, StatusXml)>>
    /\ ret' = Ok(list_outlets_table(args.names, args.stats))
    /\ pc' = "return"
    /\ UNCHANGED <<args, mainVars>>

NextList == ListOutlets

SpecList == InitList /\ [][NextList]_vars

(***************************************************************************)
(* C1: list_outlets returns a sequence sorted strictly ascending by outlet *)
(* number with exactly one record per key of the name mapping and none for *)
(* any other number (a number only in the status mapping is dropped); the  *)
(* record carries the name from the name mapping, and the state from the   *)
(* status mapping, or "(unknown)" when the number has no status entry.     *)
(***************************************************************************)
ListOutletsSortedAndComplete ==
    (pc = "return" /\ args.fn = "list_outlets") =>
        LET t == ret.value
        IN  /\ ret.kind = "ok"
            /\ \A i, j \in DOMAIN t : i < j => t[i].number < t[j].number
            /\ {t[i].number : i \in DOMAIN t} = DOMAIN args.names
            /\ Len(t) = Cardinality(DOMAIN args.names)
            /\ \A i \in DOMAIN t :
                  /\ t[i].name = args.names[t[i].number]
                  /\ t[i].state = IF t[i].number \in DOMAIN args.stats
                                  THEN args.stats[t[i].number]
                                  ELSE Unknown

\* outlets 0 and 2 are named, 1 and 2 have a status: 1 is dropped, 0 is unknown
ListOutletsWitness ==
    /\ pc = "return"
    /\ args.fn = "list_outlets"
    /\ DOMAIN args.names = {0, 2}
    /\ DOMAIN args.stats = {1, 2}
    /\ Len(ret.value) = 2
    /\ ret.value[1].state = Unknown
    /\ ret.value[2].state = args.stats[2]


(***************************************************************************)
(* resolve_outlet, lines 149-167.  A ValueError carries the parts of its   *)
(* message: the number, or the token and the list of matches.              *)
(***************************************************************************)
\* line 155: any(num == n for n, _, _ in table)
table_has(t, num) == \E i \in DOMAIN t : t[i].number = num

IsPrefix(p, s) == Len(p) <= Len(s) /\ SubSeq(s, 1, Len(p)) = p

\* line 160: name.lower() == arg.lower()
name_matches(name, arg) == lower(name) = lower(arg)

\* line 160: [n for n, name, _ in table if name.lower() == arg.lower()]
RECURSIVE name_matches_list(_, _)
name_matches_list(arg, t) ==
    IF t = <<>> THEN <<>>
    ELSE (IF name_matches(Head(t).name, arg) THEN <<Head(t).number>> ELSE <<>>)
             \o name_matches_list(arg, Tail(t))

ValueError(what, subject, found) ==
    Raise([type |-> "ValueError", what |-> what, subject |-> subject,
           matches |-> found])

resolve_by_name_first(arg, t) ==
    LET matches == name_matches_list(arg, t)
    IN  IF Len(matches) >= 1 THEN Ok(matches[1])
        ELSE ValueError("no outlet named", arg, <<>>)

resolve_by_name(arg, t) ==
    LET matches == name_matches_list(arg, t)
    IN  IF Len(matches) = 1 THEN Ok(matches[1])
        ELSE IF Len(matches) > 1
             THEN ValueError("multiple outlets named", arg, matches)
             ELSE ValueError("no outlet named", arg, <<>>)

resolve_by_number_or_name(arg, t) ==
    LET num == int_digits(arg)
    IN  IF table_has(t, num) THEN Ok(num) ELSE resolve_by_name(arg, t)

resolve_by_number(arg, t) ==
    LET num == int_digits(arg)
    IN  IF table_has(t, num) THEN Ok(num)
        ELSE ValueError("outlet number not present", num, <<>>)

resolve_outlet(arg, t) ==
    IF isdigit(arg) THEN resolve_by_number(arg, t) ELSE resolve_by_name(arg, t)

(***************************************************************************)
(* SpecResolve: resolve_outlet on a token and a directory that             *)
(* list_outlets built.                                                     *)
(***************************************************************************)
NamePool == {<<>>, <<"a">>, <<"A">>, <<"a", "b">>, <<"A", "b">>, <<"b">>, <<"1">>}

NameTokens == NamePool \cup {<<"A", "B">>, <<"c">>, <<"1", "a">>}

NumTokens == {str_nat(n) : n \in 0..(MaxOutlet + 1)}
                 \cup {<<"0">> \o str_nat(n) : n \in 0..(MaxOutlet + 1)}

InitResolve ==
    /\ pc = "call"
    /\ \E nm \in Dicts(Outlets, NamePool), arg \in NameTokens \cup NumTokens :
          args = [fn |-> "resolve_outlet", arg |-> arg,
                  table |-> list_outlets_table(nm, [n \in DOMAIN nm |-> ON])]
    /\ ret = None
    /\ net = <<>>
    /\ MainIdle

ResolveOutlet ==
    /\ pc = "call"
    /\ args.fn = "resolve_outlet"
    /\ ret' = resolve_outlet(args.arg, args.table)
    /\ pc' = "return"
    /\ UNCHANGED <<args, net, mainVars>>

NextResolve == ResolveOutlet

SpecResolve == InitResolve /\ [][NextResolve]_vars

\* the decimal value of a token of digits, most significant digit first
RECURSIVE DecimalValue(_, _)
DecimalValue(s, acc) ==
    IF s = <<>> THEN acc ELSE DecimalValue(Tail(s), 10 * acc + DigitVal(s[1]))

OnlyDigits(s) == Len(s) >= 1 /\ \A i \in 1..Len(s) : s[i] \in Range(DigitChars)

Returned(fn) == pc = "return" /\ args.fn = fn

(***************************************************************************)
(* C2: for a token made only of decimal digits, resolve_outlet returns the *)
(* token's integer value if and only if a record with exactly that number  *)
(* is in the directory; otherwise it fails with the unknown-outlet error   *)
(* naming that number, whatever the outlets are named.                     *)
(***************************************************************************)
ResolveNumericToken ==
    (Returned("resolve_outlet") /\ OnlyDigits(args.arg)) =>
        LET v == DecimalValue(args.arg, 0)
            present == \E i \in DOMAIN args.table : args.table[i].number = v
        IN  /\ present => ret = Ok(v)
            /\ ~present =>
                  /\ ret.kind = "raise"
                  /\ ret.error.what = "outlet number not present"
                  /\ ret.error.subject = v

\* token "1", no outlet 1, but another outlet is named "1": still an error
ResolveNumericTokenWitness ==
    /\ Returned("resolve_outlet")
    /\ args.arg = <<"1">>
    /\ \A i \in DOMAIN args.table : args.table[i].number # 1
    /\ \E i \in DOMAIN args.table : args.table[i].name = <<"1">>
    /\ ret.kind = "raise"

(***************************************************************************)
(* C3: for a non-numeric token, resolve_outlet matches record names by     *)
(* case-insensitive exact equality: one match returns its number, no match *)
(* fails with the unknown-outlet error, two or more fail with the          *)
(* ambiguity error listing every matching number.                          *)
(***************************************************************************)
SameIgnoringCase(a, b) ==
    /\ Len(a) = Len(b)
    /\ \A i \in 1..Len(a) : LowerChar(a[i]) = LowerChar(b[i])

ResolveNameToken ==
    (Returned("resolve_outlet") /\ ~OnlyDigits(args.arg)) =>
        LET t == args.table
            hits == {i \in DOMAIN t : SameIgnoringCase(t[i].name, args.arg)}
        IN  /\ Cardinality(hits) = 1 =>
                  \E i \in hits : ret = Ok(t[i].number)
            /\ Cardinality(hits) = 0 =>
                  /\ ret.kind = "raise"
                  /\ ret.error.what = "no outlet named"
                  /\ ret.error.subject = args.arg
            /\ Cardinality(hits) >= 2 =>
                  /\ ret.kind = "raise"
                  /\ ret.error.what = "multiple outlets named"
                  /\ Range(ret.error.matches) = {t[i].number : i \in hits}
                  /\ Len(ret.error.matches) = Cardinality(hits)

\* token "AB" against outlets "ab", "Ab" and "a": two matches, the prefix is none
ResolveNameTokenWitness ==
    /\ Returned("resolve_outlet")
    /\ args.arg = <<"A", "B">>
    /\ Len(args.table) = 3
    /\ args.table[1].name = <<"a", "b">>
    /\ args.table[2].name = <<"a">>
    /\ args.table[3].name = <<"A", "b">>
    /\ ret.kind = "raise"
    /\ ret.error.matches = <<args.table[1].number, args.table[3].number>>


(***************************************************************************)
(* str.strip(): drops leading and trailing whitespace.                     *)
(***************************************************************************)
Whitespace == {" ", "\n", "\t"}

RECURSIVE rstrip(_, _)
rstrip(s, chars) ==
    IF s # <<>> /\ s[Len(s)] \in chars
    THEN rstrip(SubSeq(s, 1, Len(s) - 1), chars) ELSE s

\* str.strip(chars)
strip_chars(s, chars) == rstrip(lstrip(s, chars), chars)

strip(s) == strip_chars(s, Whitespace)

\* str.startswith(prefix)
startswith(s, prefix) == IsPrefix(prefix, s)

\* str.replace(old, ""): every non-overlapping occurrence of old, left to right
RECURSIVE remove_all(_, _)
remove_all(s, old) ==
    IF s = <<>> THEN <<>>
    ELSE IF startswith(s, old) THEN remove_all(DropFirst(s, Len(old)), old)
    ELSE <<Head(s)>> \o remove_all(Tail(s), old)

(***************************************************************************)
(* int(s) for any string: surrounding whitespace, an optional sign, then   *)
(* digits, with single underscores allowed between digits.                 *)
(***************************************************************************)
int_body_ok(d) ==
    /\ d # <<>>
    /\ \A i \in DOMAIN d : d[i] \in Range(DigitChars) \cup {"_"}
    /\ d[1] # "_"
    /\ d[Len(d)] # "_"
    /\ \A i \in 1..(Len(d) - 1) : ~(d[i] = "_" /\ d[i + 1] = "_")

int_parse(s) ==
    LET t == strip(s)
        signed == t # <<>> /\ t[1] \in {"+", "-"}
        d == IF signed THEN Tail(t) ELSE t
        v == int_digits(remove_all(d, <<"_">>))
    IN  IF int_body_ok(d)
        THEN Ok(IF signed /\ t[1] = "-" THEN -v ELSE v)
        ELSE Raise("ValueError")

(***************************************************************************)
(* parse_status, lines 91-102.  A document is either not well-formed       *)
(* (ET.fromstring raises ParseError) or a root whose children are          *)
(* [tag, text]; Element.text is None exactly when the text is empty.       *)
(***************************************************************************)
OutletStat == <<"o", "u", "t", "l", "e", "t", "S", "t", "a", "t">>

text_is_none(elem) == elem.text = <<>>

\* lines 98-100, one iteration of the loop on the states gathered so far
parse_status_elem(states, elem) ==
    IF startswith(elem.tag, OutletStat)
    THEN LET num == int_parse(remove_all(elem.tag, OutletStat))
         IN  IF num.kind = "raise" THEN num
             ELSE IF text_is_none(elem) THEN Raise("AttributeError")
             ELSE Ok(dict_set(states, num.value, upper(strip(elem.text))))
    ELSE Ok(states)

RECURSIVE parse_status_loop(_, _)
parse_status_loop(states, children) ==
    IF children = <<>> THEN Ok(states)
    ELSE LET r == parse_status_elem(states, Head(children))
         IN  IF r.kind = "raise" THEN r
             ELSE parse_status_loop(r.value, Tail(children))

parse_status(doc) ==
    IF ~doc.wellformed THEN Raise("ParseError")
    ELSE parse_status_loop(EmptyDict, doc.children)

(***************************************************************************)
(* SpecStatus: parse_status on its own.                                    *)
(***************************************************************************)
MaxChildren == 2

StatusTags == {
    <<"o", "u", "t", "l", "e", "t", "S", "t", "a", "t", "1">>,
    <<"o", "u", "t", "l", "e", "t", "S", "t", "a", "t", "2">>,
    <<"o", "u", "t", "l", "e", "t", "S", "t", "a", "t", "0", "2">>,
    <<"o", "u", "t", "l", "e", "t", "S", "t", "a", "t">>,
    <<"o", "u", "t", "l", "e", "t", "S", "t", "a", "t", "x">>,
    <<"t", "e", "m", "p">>,
    <<"o", "u", "t", "l", "e", "t", "S", "t", "a", "t", "1", "o", "u", "t", "l", "e", "t", "S", "t", "a", "t", "2">>}

StatusTexts == {
    <<>>,
    <<"o", "n">>,
    <<" ", "O", "f", "f", "\n">>,
    <<"O", "N">>}

StatusElems == [tag : StatusTags, text : StatusTexts]

MalformedDoc == [wellformed |-> FALSE, children |-> <<>>]

StatusDocs ==
    {MalformedDoc} \cup
    {[wellformed |-> TRUE, children |-> c] :
        c \in UNION {[1..n -> StatusElems] : n \in 0..MaxChildren}}

InitStatus ==
    /\ pc = "call"
    /\ args \in [fn : {"parse_status"}, xml_text : StatusDocs]
    /\ ret = None
    /\ net = <<>>
    /\ MainIdle

ParseStatus ==
    /\ pc = "call"
    /\ args.fn = "parse_status"
    /\ ret' = parse_status(args.xml_text)
    /\ pc' = "return"
    /\ UNCHANGED <<args, net, mainVars>>

NextStatus == ParseStatus

SpecStatus == InitStatus /\ [][NextStatus]_vars

\* an integer written in decimal: an optional sign and one or more digits
IsInteger(s) ==
    \/ OnlyDigits(s)
    \/ (Len(s) >= 2 /\ s[1] \in {"+", "-"} /\ OnlyDigits(Tail(s)))

IntegerValue(s) ==
    IF s[1] = "-" THEN -DecimalValue(Tail(s), 0)
    ELSE IF s[1] = "+" THEN DecimalValue(Tail(s), 0)
    ELSE DecimalValue(s, 0)

\* what follows the prefix outletStat in a tag that begins with it
Remainder(tag) == DropFirst(tag, Len(OutletStat))

\* trimmed: without its leading and trailing whitespace
RECURSIVE Trimmed(_)
Trimmed(s) ==
    IF s = <<>> THEN s
    ELSE IF s[1] \in Whitespace THEN Trimmed(Tail(s))
    ELSE IF s[Len(s)] \in Whitespace THEN Trimmed(SubSeq(s, 1, Len(s) - 1))
    ELSE s

UpperCased(s) == [i \in 1..Len(s) |-> UpperChar(s[i])]

(***************************************************************************)
(* C8: for a well-formed status document parse_status returns exactly one  *)
(* entry N -> trimmed, upper-cased text for each child whose tag is        *)
(* outletStat<N>, ignores the children without the prefix, and fails when  *)
(* a tag with the prefix has a remainder that is not an integer; a         *)
(* document that is not well-formed fails with the parse error.            *)
(***************************************************************************)
ParseStatusAsStated ==
    Returned("parse_status") =>
        LET doc == args.xml_text
            kids == doc.children
            pref == {i \in DOMAIN kids : IsPrefix(OutletStat, kids[i].tag)}
            bad == \E i \in pref : ~IsInteger(Remainder(kids[i].tag))
            N(i) == IntegerValue(Remainder(kids[i].tag))
        IN  /\ ~doc.wellformed => ret = Raise("ParseError")
            /\ (doc.wellformed /\ bad) => ret.kind = "raise"
            /\ (doc.wellformed /\ ~bad) =>
                  /\ ret.kind = "ok"
                  /\ DOMAIN ret.value = {N(i) : i \in pref}
                  /\ \A n \in DOMAIN ret.value :
                        \E i \in pref :
                           /\ N(i) = n
                           /\ ret.value[n] = UpperCased(Trimmed(kids[i].text))

(***************************************************************************)
(* What parse_status does satisfy: the statement of C8 on the documents    *)
(* whose outletStat elements all carry text and whose tags hold the prefix *)
(* once.                                                                   *)
(***************************************************************************)
RECURSIVE Occurrences(_, _)
Occurrences(s, w) ==
    IF Len(s) < Len(w) THEN 0
    ELSE (IF IsPrefix(w, s) THEN 1 ELSE 0) + Occurrences(Tail(s), w)

PlainStatusDoc(doc) ==
    \A i \in DOMAIN doc.children :
        IsPrefix(OutletStat, doc.children[i].tag) =>
            /\ doc.children[i].text # <<>>
            /\ Occurrences(doc.children[i].tag, OutletStat) = 1

ParseStatusOnPlainDocuments ==
    (Returned("parse_status") /\ PlainStatusDoc(args.xml_text)) => ParseStatusAsStated


(***************************************************************************)
(* parse_names, lines 68-88.  The parsed page is a sequence of blocks in   *)
(* document order; a block is a table row (tr) or some other element, and  *)
(* holds cells in document order; a cell is a td or a th with its text     *)
(* nodes (one per run of text between tags) and its input elements.        *)
(***************************************************************************)
OutletWord == <<"o", "u", "t", "l", "e", "t">>

Checkbox == <<"c", "h", "e", "c", "k", "b", "o", "x">>

\* line 68 and 81: _RX_CHECKBOX.fullmatch(name), the group (\d+) or no match
rx_checkbox_fullmatch(name) ==
    IF startswith(name, OutletWord) /\ isdigit(DropFirst(name, Len(OutletWord)))
    THEN Ok(DropFirst(name, Len(OutletWord)))
    ELSE None

\* Tag.get_text(strip=True): every text node stripped, the empty ones
\* dropped, the rest joined with nothing between them
RECURSIVE get_text_strip(_)
get_text_strip(strings) ==
    IF strings = <<>> THEN <<>>
    ELSE strip(Head(strings)) \o get_text_strip(Tail(strings))

\* line 80: soup.find_all("input", {"type": "checkbox"}), in document order,
\* each with the index of the block it sits in
RECURSIVE cell_checkboxes(_, _)
cell_checkboxes(inputs, b) ==
    IF inputs = <<>> THEN <<>>
    ELSE (IF Head(inputs).type = Checkbox
          THEN <<[name |-> Head(inputs).name, block |-> b]>> ELSE <<>>)
             \o cell_checkboxes(Tail(inputs), b)

RECURSIVE block_checkboxes(_, _)
block_checkboxes(cells, b) ==
    IF cells = <<>> THEN <<>>
    ELSE cell_checkboxes(Head(cells).inputs, b) \o block_checkboxes(Tail(cells), b)

RECURSIVE find_all_checkboxes(_, _)
find_all_checkboxes(page, b) ==
    IF b > Len(page) THEN <<>>
    ELSE block_checkboxes(page[b].cells, b) \o find_all_checkboxes(page, b + 1)

\* line 86: tr.find_all("td")
find_all_td(cells) == SelectSeq(cells, LAMBDA c : c.tag = "td")

\* lines 81-86, one iteration of the loop on the names gathered so far
parse_names_checkbox(nm, cb, page) ==
    LET match == rx_checkbox_fullmatch(cb.name)
    IN  IF match = None THEN Ok(nm)
        ELSE LET num == int_digits(match.value)
                 tr == page[cb.block]
             IN  IF ~tr.tr THEN Raise("AttributeError")
                 ELSE IF find_all_td(tr.cells) = <<>> THEN Raise("IndexError")
                 ELSE Ok(dict_set(nm, num,
                                  get_text_strip(find_all_td(tr.cells)[1].strings)))

RECURSIVE parse_names_loop(_, _, _)
parse_names_loop(nm, cbs, page) ==
    IF cbs = <<>> THEN Ok(nm)
    ELSE LET r == parse_names_checkbox(nm, Head(cbs), page)
         IN  IF r.kind = "raise" THEN r
             ELSE parse_names_loop(r.value, Tail(cbs), page)

parse_names(page) == parse_names_loop(EmptyDict, find_all_checkboxes(page, 1), page)

(***************************************************************************)
(* SpecNames: parse_names on its own.                                      *)
(***************************************************************************)
MaxRows == 2

Input(type, name) == [type |-> type, name |-> name]

Cell(tag, strings, inputs) == [tag |-> tag, strings |-> strings, inputs |-> inputs]

Block(isrow, cells) == [tr |-> isrow, cells |-> cells]

Outlet1 == <<"o", "u", "t", "l", "e", "t", "1">>

Outlet2 == <<"o", "u", "t", "l", "e", "t", "2">>

Outlet01 == <<"o", "u", "t", "l", "e", "t", "0", "1">>

XOutlet1 == <<"x", "o", "u", "t", "l", "e", "t", "1">>

OutletCheckAll == <<"o", "u", "t", "l", "e", "t", "_", "c", "h", "e", "c", "k", "_", "a", "l", "l">>

TextType == <<"t", "e", "x", "t">>

CheckboxCell(name) == Cell("td", <<>>, <<Input(Checkbox, name)>>)

\* <tr><td> Lamp </td><td><input type="checkbox" name="outlet1"></td></tr>
RowLamp == Block(TRUE, <<Cell("td", <<<<" ", "L", "a", "m", "p", " ">>>>, <<>>), CheckboxCell(Outlet1)>>)

\* <tr><td>Fan <b> A</b></td><td><input type="checkbox" name="outlet2"></td></tr>
RowFanA == Block(TRUE, <<Cell("td", <<<<"F", "a", "n", " ">>, <<" ", "A">>>>, <<>>), CheckboxCell(Outlet2)>>)

\* <tr><th>Pump</th><td><input type="checkbox" name="outlet1"></td></tr>
RowHeaderPump == Block(TRUE, <<Cell("th", <<<<"P", "u", "m", "p">>>>, <<>>), CheckboxCell(Outlet1)>>)

\* <tr><th>Pump<input type="checkbox" name="outlet2"></th></tr>
RowOnlyHeader == Block(TRUE, <<Cell("th", <<<<"P", "u", "m", "p">>>>, <<Input(Checkbox, Outlet2)>>)>>)

\* <tr><td><input type="checkbox" name="outlet_check_all"></td></tr>
RowCheckAll == Block(TRUE, <<CheckboxCell(OutletCheckAll)>>)

\* <tr><td>Tv</td><td><input type="text" name="outlet1"></td></tr>
RowTextInput == Block(TRUE, <<Cell("td", <<<<"T", "v">>>>, <<>>),
                             Cell("td", <<>>, <<Input(TextType, Outlet1)>>)>>)

\* <tr><td>Pc</td><td><input type="checkbox" name="xoutlet1"></td></tr>
RowXOutlet == Block(TRUE, <<Cell("td", <<<<"P", "c">>>>, <<>>), CheckboxCell(XOutlet1)>>)

\* <tr><td>Nas</td><td><input type="checkbox" name="outlet01"></td></tr>
RowOutlet01 == Block(TRUE, <<Cell("td", <<<<"N", "a", "s">>>>, <<>>), CheckboxCell(Outlet01)>>)

\* <div><input type="checkbox" name="outlet1"></div>, outside any row
StrayCheckbox == Block(FALSE, <<CheckboxCell(Outlet1)>>)

PageBlocks == {RowLamp, RowFanA, RowHeaderPump, RowOnlyHeader, RowCheckAll,
               RowTextInput, RowXOutlet, RowOutlet01, StrayCheckbox}

Pages == UNION {[1..n -> PageBlocks] : n \in 0..MaxRows}

InitNames ==
    /\ pc = "call"
    /\ args \in [fn : {"parse_names"}, html : Pages]
    /\ ret = None
    /\ net = <<>>
    /\ MainIdle

ParseNames ==
    /\ pc = "call"
    /\ args.fn = "parse_names"
    /\ ret' = parse_names(args.html)
    /\ pc' = "return"
    /\ UNCHANGED <<args, net, mainVars>>

NextNames == ParseNames

SpecNames == InitNames /\ [][NextNames]_vars

\* the checkboxes of a page: (block, cell, input) positions
CheckboxesOf(page) ==
    UNION {UNION {{<<b, c, i>> : i \in {j \in DOMAIN page[b].cells[c].inputs :
                                           page[b].cells[c].inputs[j].type = Checkbox}} :
                  c \in DOMAIN page[b].cells} :
           b \in DOMAIN page}

CheckboxName(page, p) == page[p[1]].cells[p[2]].inputs[p[3]].name

\* the name is exactly outlet<N>: the word outlet, then one or more digits
NamedOutletN(name) ==
    /\ IsPrefix(OutletWord, name)
    /\ OnlyDigits(DropFirst(name, Len(OutletWord)))

NumberOf(name) == DecimalValue(DropFirst(name, Len(OutletWord)), 0)

\* the text of a cell: its text nodes one after the other
RECURSIVE TextContent(_)
TextContent(strings) ==
    IF strings = <<>> THEN <<>> ELSE Head(strings) \o TextContent(Tail(strings))

AllCheckboxesInRows(page) == \A p \in CheckboxesOf(page) : page[p[1]].tr

(***************************************************************************)
(* C9: for a page whose checkbox inputs sit inside table rows, parse_names *)
(* returns exactly one entry per distinct N for which a checkbox named     *)
(* exactly outlet<N> exists, its name being the trimmed text of the first  *)
(* cell of that checkbox's enclosing row, and no entry for a checkbox      *)
(* whose name does not match.                                              *)
(***************************************************************************)
ParseNamesAsStated ==
    (Returned("parse_names") /\ AllCheckboxesInRows(args.html)) =>
        LET page == args.html
            hits == {p \in CheckboxesOf(page) : NamedOutletN(CheckboxName(page, p))}
        IN  /\ ret.kind = "ok"
            /\ DOMAIN ret.value = {NumberOf(CheckboxName(page, p)) : p \in hits}
            /\ \A n \in DOMAIN ret.value :
                  \E p \in hits :
                     /\ NumberOf(CheckboxName(page, p)) = n
                     /\ ret.value[n] = Trimmed(TextContent(page[p[1]].cells[1].strings))

(***************************************************************************)
(* What parse_names does satisfy: the statement of C9 on the pages whose   *)
(* rows all begin with a td cell that holds at most one text node.         *)
(***************************************************************************)
PlainPage(page) ==
    \A b \in DOMAIN page :
        /\ page[b].cells[1].tag = "td"
        /\ Len(page[b].cells[1].strings) <= 1

ParseNamesOnPlainPages ==
    (Returned("parse_names") /\ PlainPage(args.html)) => ParseNamesAsStated


(***************************************************************************)
(* main and set_outlet, lines 121-141 and 205-235.                         *)
(***************************************************************************)
NameWidth == 15

HttpScheme == <<"h", "t", "t", "p", ":", "/", "/">>

ControlOutletQuery == <<"c", "o", "n", "t", "r", "o", "l", "_", "o", "u", "t", "l", "e", "t", ".", "h", "t", "m", "?">>

\* OutletOperation, lines 48-52: the wire code of an operation
op_value_uninverted(o) == IF o = "ON" THEN <<"1">> ELSE <<"0">>

op_value(o) == IF o = "ON" THEN <<"0">> ELSE <<"1">>

\* line 231
op_of_state(state) == IF state = "1" THEN "ON" ELSE "OFF"

\* line 130
set_outlet_query(outlet, o) ==
    OutletWord \o str_int(outlet) \o <<"=", "1", "&", "o", "p", "=">> \o op_value(o)
        \o <<"&", "s", "u", "b", "m", "i", "t", "=", "A", "p", "p", "l", "y">>

\* line 139
set_outlet_url(base_url, outlet, o) ==
    base_url \o Slash \o ControlOutletQuery \o set_outlet_query(outlet, o)

\* line 211
main_base_url(host) == HttpScheme \o strip_chars(host, {"/"})

\* format spec <15: left-justified, padded with spaces to the width
ljust(str, width) ==
    str \o [i \in 1..(IF Len(str) < width THEN width - Len(str) ELSE 0) |-> " "]

\* line 216
outlet_line(r) ==
    str_int(r.number) \o <<" ", " ">> \o ljust(r.name, NameWidth) \o <<" ", " ">>
        \o r.state

\* line 229: next(name for n, name, _ in table if n == outlet_num)
outlet_name(t, num) == t[CHOOSE i \in DOMAIN t : t[i].number = num].name

\* lines 233-235
confirmation_line(num, name, o) ==
    <<"O", "u", "t", "l", "e", "t", " ">> \o str_int(num) \o <<" ", "(">> \o name
        \o <<")", " ", "s", "e", "t", " ", "t", "o", " ">> \o (IF o = "ON" THEN ON ELSE OFF) \o <<".">>

Step(name, status) == [name |-> name, status |-> status]

\* the outcome of the last step started
finish_step(st, status) == [st EXCEPT ![Len(st)].status = status]

\* an uncaught exception ends the process with status 1, parser.error with 2
Abort(code) ==
    /\ exit' = code
    /\ pc' = "done"

(***************************************************************************)
(* What the device serves, and the command lines tried.                    *)
(***************************************************************************)
\* <tr><td>LAMP</td><td><input type="checkbox" name="outlet2"></td></tr>
RowLampUpper == Block(TRUE, <<Cell("td", <<<<"L", "A", "M", "P">>>>, <<>>), CheckboxCell(Outlet2)>>)

DevicePages == {<<RowLamp, RowFanA>>, <<RowLampUpper, RowLamp>>, <<RowOnlyHeader>>}

StatElem(tag, text) == [tag |-> tag, text |-> text]

WellFormed(children) == [wellformed |-> TRUE, children |-> children]

DeviceStatus == {
    WellFormed(<<StatElem(<<"o", "u", "t", "l", "e", "t", "S", "t", "a", "t", "1">>, <<"o", "n">>),
                 StatElem(<<"o", "u", "t", "l", "e", "t", "S", "t", "a", "t", "2">>, <<" ", "O", "f", "f", "\n">>)>>),
    WellFormed(<<StatElem(<<"t", "e", "m", "p">>, <<"2", "1">>),
                 StatElem(<<"o", "u", "t", "l", "e", "t", "S", "t", "a", "t", "2">>, <<"O", "N">>)>>),
    WellFormed(<<StatElem(<<"o", "u", "t", "l", "e", "t", "S", "t", "a", "t", "1">>, <<>>)>>),
    MalformedDoc}

Hosts == {<<"h">>, <<"h", "/">>}

OutletArgs == {<<"1">>, <<"3">>, <<"l", "a", "m", "p">>, <<"f", "a", "n", "a">>, <<"x">>}

CommandLines ==
    [fn : {"main"}, host : Hosts, list : {TRUE}, outlet : {<<>>},
     state : {"none", "0", "1"}]
    \cup
    [fn : {"main"}, host : Hosts, list : {FALSE}, outlet : OutletArgs,
     state : {"none", "0", "1"}]

InitMain ==
    /\ pc = "main"
    /\ args \in CommandLines
    /\ ret = None
    /\ net = <<>>
    /\ MainIdle

(***************************************************************************)
(* main, lines 214-223: the mode, and -s required with -o.                 *)
(***************************************************************************)
Start ==
    /\ pc = "main"
    /\ IF ~args.list /\ args.state = "none"
       THEN Abort("2")
       ELSE pc' = "fetch_names" /\ UNCHANGED exit
    /\ UNCHANGED <<args, ret, net, names, stats, table, outlet_num, op, steps,
                   stdout, session>>

(***************************************************************************)
(* list_outlets, line 110: fetch(base_url, "control_outlet.htm", ...)      *)
(***************************************************************************)
FetchNames ==
    /\ pc = "fetch_names"
    /\ net' = Append(net, fetch_url(main_base_url(args.host), ControlOutletHtm))
    /\ \E outcome \in FetchOutcomes, body \in DevicePages :
          /\ ret' = fetch_result(outcome, body)
          /\ IF outcome = "body"
             THEN /\ steps' = Append(steps, Step("fetch_names", "ok"))
                  /\ pc' = "parse_names"
                  /\ UNCHANGED exit
             ELSE /\ steps' = Append(steps, Step("fetch_names", "failed"))
                  /\ Abort("1")
    /\ UNCHANGED <<args, names, stats, table, outlet_num, op, stdout, session>>

\* line 110: names = parse_names(...)
ParseNamesStep ==
    /\ pc = "parse_names"
    /\ LET r == parse_names(ret.value)
       IN  /\ ret' = r
           /\ IF r.kind = "ok"
              THEN /\ names' = r.value
                   /\ steps' = Append(steps, Step("parse_names", "ok"))
                   /\ pc' = "fetch_status"
                   /\ UNCHANGED exit
              ELSE /\ steps' = Append(steps, Step("parse_names", "failed"))
                   /\ Abort("1")
                   /\ UNCHANGED names
    /\ UNCHANGED <<args, net, stats, table, outlet_num, op, stdout, session>>

(***************************************************************************)
(* list_outlets, line 111: fetch(base_url, "status.xml", ...)              *)
(***************************************************************************)
FetchStatusRetrying ==
    /\ pc = "fetch_status"
    /\ net' = Append(net, fetch_url(main_base_url(args.host), StatusXml))
    /\ \E outcome \in FetchOutcomes, body \in DeviceStatus :
          /\ ret' = fetch_result(outcome, body)
          /\ IF outcome = "body"
             THEN /\ steps' = Append(steps, Step("fetch_status", "ok"))
                  /\ pc' = "parse_status"
             ELSE /\ steps' = Append(steps, Step("fetch_status", "failed"))
                  /\ pc' = IF Len(steps) < 3 THEN "fetch_status" ELSE "done"
          /\ exit' = IF pc' = "done" THEN "1" ELSE exit
    /\ UNCHANGED <<args, names, stats, table, outlet_num, op, stdout, session>>

FetchStatus ==
    /\ pc = "fetch_status"
    /\ net' = Append(net, fetch_url(main_base_url(args.host), StatusXml))
    /\ \E outcome \in FetchOutcomes, body \in DeviceStatus :
          /\ ret' = fetch_result(outcome, body)
          /\ IF outcome = "body"
             THEN /\ steps' = Append(steps, Step("fetch_status", "ok"))
                  /\ pc' = "parse_status"
                  /\ UNCHANGED exit
             ELSE /\ steps' = Append(steps, Step("fetch_status", "failed"))
                  /\ Abort("1")
    /\ UNCHANGED <<args, names, stats, table, outlet_num, op, stdout, session>>

\* line 111: stats = parse_status(...)
ParseStatusStep ==
    /\ pc = "parse_status"
    /\ LET r == parse_status(ret.value)
       IN  /\ ret' = r
           /\ IF r.kind = "ok"
              THEN /\ stats' = r.value
                   /\ steps' = Append(steps, Step("parse_status", "ok"))
                   /\ pc' = "return_table"
                   /\ UNCHANGED exit
              ELSE /\ steps' = Append(steps, Step("parse_status", "failed"))
                   /\ Abort("1")
                   /\ UNCHANGED stats
    /\ UNCHANGED <<args, net, names, table, outlet_num, op, stdout, session>>

\* line 113, and the caller's line 215 or 223
ReturnTable ==
    /\ pc = "return_table"
    /\ table' = list_outlets_table(names, stats)
    /\ pc' = IF args.list THEN "print_rows" ELSE "resolve"
    /\ UNCHANGED <<args, ret, net, names, stats, outlet_num, op, steps, stdout,
                   session, exit>>

(***************************************************************************)
(* main, lines 215-217: one line per outlet, then return.                  *)
(***************************************************************************)
PrintRow ==
    /\ pc = "print_rows"
    /\ Len(stdout) < Len(table)
    /\ stdout' = Append(stdout, outlet_line(table[Len(stdout) + 1]))
    /\ UNCHANGED <<pc, args, ret, net, names, stats, table, outlet_num, op, steps,
                   session, exit>>

ListDone ==
    /\ pc = "print_rows"
    /\ Len(stdout) = Len(table)
    /\ pc' = "done"
    /\ exit' = "0"
    /\ UNCHANGED <<args, ret, net, names, stats, table, outlet_num, op, steps,
                   stdout, session>>

(***************************************************************************)
(* main, lines 224-227: resolve_outlet; a ValueError goes to parser.error. *)
(***************************************************************************)
Resolve ==
    /\ pc = "resolve"
    /\ LET r == resolve_outlet(args.outlet, table)
       IN  /\ ret' = r
           /\ IF r.kind = "ok"
              THEN /\ outlet_num' = r.value
                   /\ steps' = Append(steps, Step("resolve", "ok"))
                   /\ pc' = "set_outlet"
                   /\ UNCHANGED exit
              ELSE /\ steps' = Append(steps, Step("resolve", "failed"))
                   /\ Abort("2")
                   /\ UNCHANGED outlet_num
    /\ UNCHANGED <<args, net, names, stats, table, op, stdout, session>>

(***************************************************************************)
(* main, lines 229-232, and set_outlet, lines 130-132: the operation is    *)
(* chosen and sync_playwright() is entered, which may fail to start.       *)
(***************************************************************************)
SetOutletCallPrintingFirst ==
    /\ pc = "set_outlet"
    /\ op' = op_of_state(args.state)
    /\ steps' = Append(steps, Step("actuate", "running"))
    /\ stdout' = Append(stdout, confirmation_line(outlet_num,
                                    outlet_name(table, outlet_num), op'))
    /\ \E started \in BOOLEAN :
          /\ ret' = IF started THEN None ELSE Raise("Error")
          /\ pc' = IF started THEN "pw_launch" ELSE "pw_raise"
    /\ UNCHANGED <<args, net, names, stats, table, outlet_num, session, exit>>

SetOutletCall ==
    /\ pc = "set_outlet"
    /\ op' = op_of_state(args.state)
    /\ steps' = Append(steps, Step("actuate", "running"))
    /\ \E started \in BOOLEAN :
          /\ ret' = IF started THEN None ELSE Raise("Error")
          /\ pc' = IF started THEN "pw_launch" ELSE "pw_raise"
    /\ UNCHANGED <<args, net, names, stats, table, outlet_num, stdout, session,
                   exit>>

\* line 133: browser = pw.chromium.launch(headless=True)
PwLaunch ==
    /\ pc = "pw_launch"
    /\ \E launched \in BOOLEAN :
          /\ session' = IF launched THEN "open" ELSE session
          /\ ret' = IF launched THEN None ELSE Raise("Error")
          /\ pc' = IF launched THEN "pw_new_context" ELSE "pw_exit"
    /\ UNCHANGED <<args, net, names, stats, table, outlet_num, op, steps, stdout,
                   exit>>

\* lines 134-138: new_context, set_default_navigation_timeout, new_page
PwNewPage ==
    /\ pc = "pw_new_context"
    /\ \E created \in BOOLEAN :
          /\ ret' = IF created THEN None ELSE Raise("Error")
          /\ pc' = IF created THEN "pw_goto" ELSE "pw_exit"
    /\ UNCHANGED <<args, net, names, stats, table, outlet_num, op, steps, stdout,
                   session, exit>>

\* line 139: page.goto(f"{base_url}/control_outlet.htm?{query}", ...)
PwGoto ==
    /\ pc = "pw_goto"
    /\ net' = Append(net, set_outlet_url(main_base_url(args.host), outlet_num, op))
    /\ \E outcome \in {"loaded", "TimeoutError", "Error"} :
          /\ ret' = IF outcome = "loaded" THEN None ELSE Raise(outcome)
          /\ pc' = IF outcome = "loaded" THEN "pw_click" ELSE "pw_exit"
    /\ UNCHANGED <<args, names, stats, table, outlet_num, op, steps, stdout,
                   session, exit>>

\* line 140: page.click("input[name='submit'][value='Apply']")
PwClick ==
    /\ pc = "pw_click"
    /\ \E outcome \in {"clicked", "TimeoutError", "Error"} :
          /\ ret' = IF outcome = "clicked" THEN None ELSE Raise(outcome)
          /\ pc' = IF outcome = "clicked" THEN "pw_close" ELSE "pw_exit"
    /\ UNCHANGED <<args, net, names, stats, table, outlet_num, op, steps, stdout,
                   session, exit>>

\* line 141: browser.close()
PwClose ==
    /\ pc = "pw_close"
    /\ \E closed \in BOOLEAN :
          /\ session' = IF closed THEN "closed" ELSE session
          /\ ret' = IF closed THEN None ELSE Raise("Error")
    /\ pc' = "pw_exit"
    /\ UNCHANGED <<args, net, names, stats, table, outlet_num, op, steps, stdout,
                   exit>>

(***************************************************************************)
(* line 132, leaving the with block, normally or by an exception:          *)
(* sync_playwright's __exit__ stops the driver, and with it every browser  *)
(* the driver launched; a pending exception then propagates out of main.   *)
(***************************************************************************)
PwExitKeepingBrowser ==
    /\ pc = "pw_exit"
    /\ UNCHANGED session
    /\ IF ret.kind = "raise"
       THEN steps' = finish_step(steps, "failed") /\ Abort("1")
       ELSE steps' = finish_step(steps, "ok") /\ pc' = "print" /\ UNCHANGED exit
    /\ UNCHANGED <<args, ret, net, names, stats, table, outlet_num, op, stdout>>

PwExit ==
    /\ pc = "pw_exit"
    /\ session' = IF session = "open" THEN "closed" ELSE session
    /\ IF ret.kind = "raise"
       THEN steps' = finish_step(steps, "failed") /\ Abort("1")
       ELSE steps' = finish_step(steps, "ok") /\ pc' = "print" /\ UNCHANGED exit
    /\ UNCHANGED <<args, ret, net, names, stats, table, outlet_num, op, stdout>>

\* sync_playwright().__enter__ raised: the with block was never entered
PwRaise ==
    /\ pc = "pw_raise"
    /\ steps' = finish_step(steps, "failed")
    /\ Abort("1")
    /\ UNCHANGED <<args, ret, net, names, stats, table, outlet_num, op, stdout,
                   session>>

\* lines 233-235
PrintConfirmation ==
    /\ pc = "print"
    /\ stdout' = Append(stdout, confirmation_line(outlet_num,
                                    outlet_name(table, outlet_num), op))
    /\ pc' = "done"
    /\ exit' = "0"
    /\ UNCHANGED <<args, ret, net, names, stats, table, outlet_num, op, steps,
                   session>>

NextMain ==
    \/ Start
    \/ FetchNames
    \/ ParseNamesStep
    \/ FetchStatus
    \/ ParseStatusStep
    \/ ReturnTable
    \/ PrintRow
    \/ ListDone
    \/ Resolve
    \/ SetOutletCall
    \/ PwLaunch
    \/ PwNewPage
    \/ PwGoto
    \/ PwClick
    \/ PwClose
    \/ PwExit
    \/ PwRaise
    \/ PrintConfirmation

Spec == InitMain /\ [][NextMain]_vars


Failed == exit \in {"1", "2"}

ActMode == args.fn = "main" /\ ~args.list

\* the wire code the device must receive for a CLI state: "1" (on) is
\* operation ON, transmitted as "0"; "0" (off) is OFF, transmitted as "1"
WireCodeFor(state) == IF state = "1" THEN "0" ELSE "1"

OperationFor(state) == IF state = "1" THEN <<"O", "N">> ELSE <<"O", "F", "F">>

ExpectedQuery(n, state) ==
    <<"o", "u", "t", "l", "e", "t">> \o str_int(n) \o <<"=", "1", "&", "o", "p", "=">>
        \o <<WireCodeFor(state)>> \o <<"&", "s", "u", "b", "m", "i", "t", "=", "A", "p", "p", "l", "y">>

\* what follows the first "?" of a URL
RECURSIVE QueryOf(_)
QueryOf(url) ==
    IF url = <<>> THEN <<>>
    ELSE IF Head(url) = "?" THEN Tail(url) ELSE QueryOf(Tail(url))

EndsWith(str, suffix) ==
    /\ Len(suffix) <= Len(str)
    /\ SubSeq(str, Len(str) - Len(suffix) + 1, Len(str)) = suffix

(***************************************************************************)
(* C4: in act mode the query submitted to the device is exactly            *)
(* outlet<N>=1&op=<code>&submit=Apply for the resolved number N, with code *)
(* "0" when the CLI state is "1" (ON) and "1" when it is "0" (OFF), and    *)
(* the confirmation line reports the operation that was transmitted.       *)
(***************************************************************************)
ActQueryAndConfirmation ==
    ActMode =>
        /\ Len(net) <= 3
        /\ Len(net) = 3 =>
              /\ args.state \in {"0", "1"}
              /\ table_has(table, outlet_num)
              /\ QueryOf(net[3]) = ExpectedQuery(outlet_num, args.state)
        /\ stdout # <<>> =>
              /\ Len(stdout) = 1
              /\ Len(net) = 3
              /\ EndsWith(stdout[1], <<" ", "s", "e", "t", " ", "t", "o", " ">> \o OperationFor(args.state) \o <<".">>)

ActQueryAndConfirmationWitness ==
    /\ ActMode
    /\ exit = "0"
    /\ args.state = "1"
    /\ args.host = <<"h">>
    /\ net[3] = <<"h", "t", "t", "p", ":", "/", "/", "h", "/", "c", "o", "n", "t", "r", "o", "l", "_", "o", "u", "t", "l", "e", "t", ".", "h", "t", "m", "?", "o", "u", "t", "l", "e", "t", "1", "=", "1", "&", "o", "p", "=", "0", "&", "s", "u", "b", "m", "i", "t", "=", "A", "p", "p", "l", "y">>
    /\ stdout = <<<<"O", "u", "t", "l", "e", "t", " ", "1", " ", "(", "L", "a", "m", "p", ")", " ", "s", "e", "t", " ", "t", "o", " ", "O", "N", ".">>>>

StepOrder == <<"fetch_names", "parse_names", "fetch_status", "parse_status",
               "resolve", "actuate">>

(***************************************************************************)
(* C5: the steps of one command happen in the fixed order fetch names,     *)
(* fetch status, resolve, actuate (each fetch followed by its parse), each *)
(* at most once; a failed step is the last one started; the actuator is    *)
(* started only after both fetches, both parses and the resolution         *)
(* succeeded.                                                              *)
(***************************************************************************)
StepsInOrderOnce ==
    args.fn = "main" =>
        /\ Len(steps) <= Len(StepOrder)
        /\ \A i \in DOMAIN steps : steps[i].name = StepOrder[i]
        /\ \A i \in 1..(Len(steps) - 1) : steps[i].status = "ok"
        /\ args.list => Len(steps) <= 4
        /\ (Failed /\ steps # <<>>) => steps[Len(steps)].status = "failed"
        /\ Len(net) <= 3
        /\ \A i, j \in DOMAIN net : i # j => net[i] # net[j]

StepsInOrderOnceWitness ==
    /\ ActMode
    /\ exit = "0"
    /\ Len(steps) = 6
    /\ steps[6] = Step("actuate", "ok")
    /\ Len(net) = 3

(***************************************************************************)
(* C6: a line is written to standard output only after everything before   *)
(* it succeeded: in list mode both fetches and both parses, in act mode    *)
(* also the resolution and the actuation; a run that ends in a failure has *)
(* written no line.                                                        *)
(***************************************************************************)
OutputOnlyAfterSuccess ==
    args.fn = "main" =>
        /\ stdout # <<>> =>
              /\ Len(steps) = IF args.list THEN 4 ELSE 6
              /\ \A i \in DOMAIN steps : steps[i].status = "ok"
        /\ Failed => stdout = <<>>

\* the click on Apply timed out: the command failed and printed nothing
OutputOnlyAfterSuccessWitness ==
    /\ ActMode
    /\ exit = "1"
    /\ Len(steps) = 6
    /\ steps[6] = Step("actuate", "failed")
    /\ Len(net) = 3
    /\ stdout = <<>>

(***************************************************************************)
(* C7: no browser session is open once set_outlet has returned or raised,  *)
(* whichever of its calls failed or timed out.                             *)
(***************************************************************************)
InSetOutlet ==
    pc \in {"pw_launch", "pw_new_context", "pw_goto", "pw_click", "pw_close",
            "pw_exit", "pw_raise"}

BrowserReleased == (args.fn = "main" /\ ~InSetOutlet) => session # "open"

\* the navigation or the click timed out with the browser open
BrowserReleasedWitness ==
    /\ ActMode
    /\ exit = "1"
    /\ ret = Raise("TimeoutError")
    /\ steps[Len(steps)] = Step("actuate", "failed")
    /\ session = "closed"

====
